---------------------------- MODULE Spec2Model ----------------------------
(***************************************************************************)
(* A model of hospital_snowflake_demo/generate_large_datasets.py: the      *)
(* patient, admission/procedure, bed, medication and allied-health         *)
(* generators, and main() with its save_to_csv calls.                      *)
(*                                                                         *)
(* Conventions.                                                            *)
(*  - A datetime is the number of days since 1970-01-01 (the time of day   *)
(*    never reaches a stored field: every stored date goes through         *)
(*    strftime('%Y-%m-%d')).  A stored date string is the triple           *)
(*    <<year, month, day>> that strftime produces; strptime reads it back. *)
(*  - An identifier f"PAT{n:06d}" is the pair <<"PAT", n>>.                 *)
(*  - Python's None is the empty tuple.                                    *)
(*  - A draw of the seeded random source is an \E over the values named    *)
(*    by randint / Poisson / ...: the seed decides which one is taken.     *)
(*  - Lines 297-309 of the source are mis-indented (the file does not      *)
(*    compile as it stands); the model follows the nesting the comments    *)
(*    and the else-branches spell out: Active -> (current | recent),       *)
(*    Historic -> old.                                                     *)
(***************************************************************************)
EXTENDS Integers, Sequences, FiniteSets, TLC

VARIABLES
    pc,                 \* position of the run
    NUM_PATIENTS,       \* configured population size
    now, now_rerun,     \* wall-clock day of this run, and of a second run with the same seed
    patients, patients_rerun,
    departments,        \* the department catalog: rows [dept_id, floor, bed_capacity]
    current_patients, patients_with_admissions,
    patient_index,      \* position of `for patient in patients_with_admissions` (1-based)
    admissions_left,    \* iterations left of `for _ in range(num_admissions)`
    admission_counter, procedure_counter,
    admissions, procedures,
    los_days,           \* the local los_days of each admission, by admission number
    bed_inventory, bed_bookings, bed_availability,
    bed_counter, booking_counter,
    dept_index,         \* position of `for ... in departments` (1-based)
    current_date,       \* the day of the bed generator's `while current_date <= end_date`
    bed_index,          \* position of `for bed in bed_inventory` (1-based)
    medications,        \* the medication catalog: rows of lines 105-126
    pharmacy_inventory, medication_orders, medication_dispensing,
    order_counter, dispensing_counter,
    medication_index,   \* position of `for ... in medications` (1-based)
    admission_index,    \* position of `for admission in admissions` (1-based)
    orders_left,        \* iterations left of `for _ in range(num_medications)`
    order_dispensed,    \* per order: whether the 90% draw of line 666 came out true
    allied_health_services_data, service_counter,
    service_index,      \* position of `for admission in admissions` of the allied-health generator
    services_left,      \* iterations left of `for _ in range(num_services)`
    patients_with_admissions_rerun, admissions_rerun,
                        \* the second run's cohort and admissions (same seed)
    csv_files,          \* what this run has written under data/, by filename
    save_index          \* the save_to_csv call main() is at (1-based)

patVars == <<NUM_PATIENTS, now, now_rerun, patients, patients_rerun>>
admVars == <<current_patients, patients_with_admissions, patient_index, admissions_left,
             admission_counter, procedure_counter, admissions, procedures, los_days,
             patients_with_admissions_rerun, admissions_rerun>>
bedVars == <<bed_inventory, bed_bookings, bed_availability, bed_counter, booking_counter,
             dept_index, current_date, bed_index>>
medVars == <<pharmacy_inventory, medication_orders, medication_dispensing, order_counter,
             dispensing_counter, medication_index, admission_index, orders_left,
             order_dispensed>>
ahsVars == <<allied_health_services_data, service_counter, service_index, services_left>>
catalogs == <<departments, medications>>
saveVars == <<csv_files, save_index>>
vars == <<pc, patVars, catalogs, admVars, bedVars, medVars, ahsVars, saveVars>>

\* What each generator leaves alone.
outsidePatients == <<catalogs, admVars, bedVars, medVars, ahsVars, saveVars>>
outsideAdmissions == <<patVars, catalogs, bedVars, medVars, ahsVars, saveVars>>
outsideBeds == <<patVars, catalogs, admVars, medVars, ahsVars, saveVars>>
outsideMedications == <<patVars, catalogs, admVars, bedVars, ahsVars, saveVars>>
outsideAllied == <<patVars, catalogs, admVars, bedVars, medVars, saveVars>>

None == <<>>

Max(a, b) == IF a >= b THEN a ELSE b
Min(a, b) == IF a <= b THEN a ELSE b

(***************************************************************************)
(* Calendar: datetime(y, m, d), strftime('%Y-%m-%d'), strptime.            *)
(***************************************************************************)
datetime(y, m, d) ==
    LET yy  == IF m <= 2 THEN y - 1 ELSE y
        era == yy \div 400
        yoe == yy - era * 400
        mp  == IF m > 2 THEN m - 3 ELSE m + 9
        doy == (153 * mp + 2) \div 5 + d - 1
        doe == yoe * 365 + yoe \div 4 - yoe \div 100 + doy
    IN  era * 146097 + doe - 719468

strftime(day) ==
    LET z   == day + 719468
        era == z \div 146097
        doe == z - era * 146097
        yoe == (doe - doe \div 1460 + doe \div 36524 - doe \div 146096) \div 365
        doy == doe - (365 * yoe + yoe \div 4 - yoe \div 100)
        mp  == (5 * doy + 2) \div 153
        d   == doy - (153 * mp + 2) \div 5 + 1
        m   == IF mp < 10 THEN mp + 3 ELSE mp - 9
        y   == yoe + era * 400 + (IF m <= 2 THEN 1 ELSE 0)
    IN  <<y, m, d>>

strptime(s) == datetime(s[1], s[2], s[3])

(***************************************************************************)
(* The random source.                                                      *)
(***************************************************************************)
\* random.randint(a, b): an integer of a..b; the model draws the two ends.
\* (With b < a the call raises ValueError: there is nothing to draw.)
randint(a, b) == IF a <= b THEN {a, b} ELSE {}

\* random.random() < p, for 0 < p < 1: either outcome.
chance == BOOLEAN

\* random.choice(seq) of a non-empty list; the model draws its two ends.
choice(seq) == {seq[1], seq[Len(seq)]}

(***************************************************************************)
(* generate_patient_demographics                                           *)
(***************************************************************************)
MaxPatients == 2

PopulationSizes == (0 - 1) .. MaxPatients

\* The wall-clock days a run may be started on.
WallClockDays == {datetime(2024, 12, 15), datetime(2025, 3, 1)}

PatientStatuses == {"Active", "Historic"}

registration_days_ago(patient_status) ==
    IF patient_status = "Active" THEN randint(1, 1095) ELSE randint(1095, 3650)

last_visit_days_ago(patient_status) ==
    IF patient_status = "Active" THEN randint(1, 730) ELSE randint(730, 2190)

\* The record appended for patient number i (0-based), given the draws and
\* the wall clock read by datetime.now().
NewPatient(i, patient_status, reg_days, visit_days, clock) ==
    [ patient_id        |-> <<"PAT", i + 1>>,
      patient_status    |-> patient_status,
      registration_date |-> strftime(clock - reg_days),
      last_visit_date   |-> strftime(clock - visit_days),
      is_active_patient |-> (patient_status = "Active") ]

\* One iteration of `for i in range(NUM_PATIENTS)`.  The second run is
\* started with the same seed, so it takes the same draws.
GeneratePatient ==
    /\ pc = "patients"
    /\ Len(patients) < NUM_PATIENTS
    /\ \E patient_status \in PatientStatuses :
         \E reg_days \in registration_days_ago(patient_status) :
           \E visit_days \in last_visit_days_ago(patient_status) :
             /\ patients' = Append(patients,
                    NewPatient(Len(patients), patient_status, reg_days, visit_days, now))
             /\ patients_rerun' = Append(patients_rerun,
                    NewPatient(Len(patients_rerun), patient_status, reg_days, visit_days, now_rerun))
    /\ UNCHANGED <<pc, NUM_PATIENTS, now, now_rerun, outsidePatients>>

\* `return patients`
PatientsReturn ==
    /\ pc = "patients"
    /\ Len(patients) >= NUM_PATIENTS
    /\ pc' = "patients_done"
    /\ UNCHANGED <<patVars, outsidePatients>>

\* The admission generator's state before it has run.
AdmIdle ==
    /\ current_patients = <<>>
    /\ patients_with_admissions = <<>>
    /\ patient_index = 0
    /\ admissions_left = 0
    /\ admission_counter = 0
    /\ procedure_counter = 0
    /\ admissions = <<>>
    /\ procedures = <<>>
    /\ los_days = <<>>
    /\ patients_with_admissions_rerun = <<>>
    /\ admissions_rerun = <<>>

\* The bed generator's state before it has run.
BedIdle ==
    /\ bed_inventory = <<>>
    /\ bed_bookings = <<>>
    /\ bed_availability = <<>>
    /\ bed_counter = 0
    /\ booking_counter = 0
    /\ dept_index = 0
    /\ current_date = 0
    /\ bed_index = 0

\* The medication generator's state before it has run.
MedIdle ==
    /\ pharmacy_inventory = <<>>
    /\ medication_orders = <<>>
    /\ medication_dispensing = <<>>
    /\ order_counter = 0
    /\ dispensing_counter = 0
    /\ medication_index = 0
    /\ admission_index = 0
    /\ orders_left = 0
    /\ order_dispensed = <<>>

\* The allied-health generator's state before it has run.
AhsIdle ==
    /\ allied_health_services_data = <<>>
    /\ service_counter = 0
    /\ service_index = 0
    /\ services_left = 0

\* Lines 812-871: the filenames main() passes to save_to_csv, in order.
Filenames ==
    << "patient_demographics_large.csv", "patient_admissions_large.csv",
       "medical_procedures_large.csv", "bed_inventory.csv", "bed_bookings.csv",
       "bed_availability.csv", "pharmacy_inventory.csv", "medication_orders.csv",
       "medication_dispensing.csv", "allied_health_services.csv" >>

\* Nothing saved: main() has not reached line 805.
SaveIdle ==
    /\ csv_files = [ n \in 1..Len(Filenames) |-> None ]
    /\ save_index = 0

InitPatients ==
    /\ pc = "patients"
    /\ NUM_PATIENTS \in PopulationSizes
    /\ now \in WallClockDays
    /\ now_rerun \in WallClockDays
    /\ patients = <<>>
    /\ patients_rerun = <<>>
    /\ departments = <<>>
    /\ medications = <<>>
    /\ AdmIdle
    /\ BedIdle
    /\ MedIdle
    /\ AhsIdle
    /\ SaveIdle

NextPatients == GeneratePatient \/ PatientsReturn

SpecPatients == InitPatients /\ [][NextPatients]_vars

\* ---- claims on the patient generator ----

\* C3: two complete runs with the same seed and configuration produce the
\* same records, field by field and in the same order, whenever each run is
\* started.
C3_SameSeedSameRecords ==
    pc = "patients_done" => patients_rerun = patients

(***************************************************************************)
(* generate_admissions_and_procedures                                      *)
(***************************************************************************)
\* Rates, in percent.
CURRENT_ADMISSION_RATE == 5
active_admission_rate == 35
historic_admission_rate == 15

admission_start_date == datetime(2023, 1, 1)
admission_end_date == datetime(2024, 12, 31)
admission_current_date == datetime(2024, 12, 15)
date_range == admission_end_date - admission_start_date

\* int(n * rate): Python truncates the float product.  For the rates above
\* and n < 180 the float product truncates to the exact floor of n*rate/100.
IntOfShare(n, rate) == (n * rate) \div 100

active_patients == SelectSeq(patients, LAMBDA p : p.patient_status = "Active")
historic_patients == SelectSeq(patients, LAMBDA p : p.patient_status = "Historic")

\* The same comprehensions, in the second run.
active_patients_rerun == SelectSeq(patients_rerun, LAMBDA p : p.patient_status = "Active")
historic_patients_rerun == SelectSeq(patients_rerun, LAMBDA p : p.patient_status = "Historic")

\* round(n * rate / 100) as Python rounds: halves go to the even neighbour.
RoundOfShare(n, rate) ==
    LET q == (n * rate) \div 100
        rem == (n * rate) % 100
    IN  IF rem > 50 \/ (rem = 50 /\ q % 2 = 1) THEN q + 1 ELSE q

\* Mutant: the cohort size rounded to nearest instead of truncated.
current_cohort_size_rounded(n) == Min(RoundOfShare(n, CURRENT_ADMISSION_RATE), n)

\* The size asked of random.sample for the currently-admitted cohort.
current_cohort_size(n) == Min(IntOfShare(n, CURRENT_ADMISSION_RATE), n)

RemoveAt(s, j) == SubSeq(s, 1, j - 1) \o SubSeq(s, j + 1, Len(s))

\* Mutant: the pick keyed on a field of the records (as when the records are
\* drawn from a collection ordered by their content).
RECURSIVE sample_by_content(_, _, _)
sample_by_content(population, k, r) ==
    IF k = 0 THEN <<>>
    ELSE LET j == ((r + population[1].registration_date[3]) % Len(population)) + 1
         IN  <<population[j]>> \o sample_by_content(RemoveAt(population, j), k - 1, r)

\* random.sample(population, k): k picks without replacement, each pick
\* removing the chosen element from the pool.  The model draws the same
\* offset r for every pick of one call.
RECURSIVE sample(_, _, _)
sample(population, k, r) ==
    IF k = 0 THEN <<>>
    ELSE LET j == (r % Len(population)) + 1
         IN  <<population[j]>> \o sample(RemoveAt(population, j), k - 1, r)

SampleDraws == {0, 1}

\* np.random.poisson(lam): a non-negative integer.
PoissonDraws == {0, 1}

\* Lines 266-283: the cohorts, the counters.
SampleCohorts ==
    /\ pc = "admissions"
    /\ \E r1 \in SampleDraws, r2 \in SampleDraws, r3 \in SampleDraws :
         /\ current_patients' =
                sample(active_patients, current_cohort_size(Len(active_patients)), r1)
         /\ patients_with_admissions' =
                sample(active_patients,
                       IntOfShare(Len(active_patients), active_admission_rate), r2)
                \o sample(historic_patients,
                       IntOfShare(Len(historic_patients), historic_admission_rate), r3)
         /\ patients_with_admissions_rerun' =
                sample(active_patients_rerun,
                       IntOfShare(Len(active_patients_rerun), active_admission_rate), r2)
                \o sample(historic_patients_rerun,
                       IntOfShare(Len(historic_patients_rerun), historic_admission_rate), r3)
    /\ admission_counter' = 1
    /\ procedure_counter' = 1
    /\ patient_index' = 1
    /\ pc' = "admissions_patient"
    /\ UNCHANGED <<outsideAdmissions, admissions_left, admissions, procedures, los_days,
                   admissions_rerun>>

MaxAdmissions == 2

\* Mutant: the number of admissions is the Poisson draw itself, so a
\* patient of the cohort may be passed over.
NextCohortPatient_PoissonOnly ==
    /\ pc = "admissions_patient"
    /\ patient_index <= Len(patients_with_admissions)
    /\ admission_counter <= MaxAdmissions
    /\ \E k \in PoissonDraws :
         IF k = 0
         THEN /\ patient_index' = patient_index + 1
              /\ UNCHANGED <<pc, admissions_left>>
         ELSE /\ admissions_left' = k
              /\ pc' = "admissions_admission"
              /\ UNCHANGED patient_index
    /\ UNCHANGED <<outsideAdmissions, current_patients, patients_with_admissions,
                   admission_counter, procedure_counter, admissions,
                   procedures, los_days, patients_with_admissions_rerun, admissions_rerun>>

\* Lines 285-287: the next patient of the cohort, and its number of admissions.
NextCohortPatient ==
    /\ pc = "admissions_patient"
    /\ patient_index <= Len(patients_with_admissions)
    /\ admission_counter <= MaxAdmissions
    /\ \E k \in PoissonDraws : admissions_left' = k + 1
    /\ pc' = "admissions_admission"
    /\ UNCHANGED <<outsideAdmissions, current_patients, patients_with_admissions,
                   patient_index, admission_counter, procedure_counter, admissions,
                   procedures, los_days, patients_with_admissions_rerun, admissions_rerun>>

\* `patient in current_patients`
InList(x, list) == \E i \in 1..Len(list) : list[i] = x

\* Mutant: the 80% draw taken for every Active patient, in the cohort or not.
AdmissionPlacements_AnyActive(patient) ==
    IF patient.patient_status = "Active"
    THEN {<<admission_current_date - d, TRUE>> : d \in randint(1, 30)}
         \cup {<<admission_current_date - d, FALSE>> : d \in randint(30, 730)}
    ELSE {<<admission_start_date + d, FALSE>> : d \in randint(0, date_range - 730)}

\* Lines 293-309: the admission date and whether the admission is current,
\* as pairs <<admission_date, is_current_admission>>.  The 80% draw is taken
\* only for a patient of the currently-admitted cohort.
AdmissionPlacements(patient) ==
    LET is_current_patient == InList(patient, current_patients)
        is_active_patient == patient.patient_status = "Active"
        current == {<<admission_current_date - d, TRUE>> : d \in randint(1, 30)}
        recent == {<<admission_current_date - d, FALSE>> : d \in randint(30, 730)}
        old == {<<admission_start_date + d, FALSE>> : d \in randint(0, date_range - 730)}
    IN  IF is_active_patient
        THEN (IF is_current_patient THEN current ELSE {}) \cup recent
        ELSE old

AdmissionTypes == {"Emergency", "Elective", "Urgent"}

\* The float drawn for the length of stay, in tenths of a day:
\* np.random.exponential(3), np.random.normal(4, 2), np.random.exponential(2).
LosDraws(admission_type) ==
    CASE admission_type = "Emergency" -> {4}
      [] admission_type = "Elective" -> {0 - 25}
      [] admission_type = "Urgent" -> {29, 450}

\* int(x) of a float given in tenths: truncation toward zero.
int(tenths) == IF tenths >= 0 THEN tenths \div 10 ELSE 0 - ((0 - tenths) \div 10)

\* Mutant: the floor max(1, ...) left out.
LengthOfStay_NoFloor(draw) == Min(int(draw), 30)

\* Lines 319-327.
LengthOfStay(draw) == Min(Max(1, int(draw)), 30)

\* Lines 329-338: the stored discharge_date.
DischargeDates(admission_date, los, is_current_admission) ==
    IF is_current_admission
    THEN {strftime(admission_date + los), None}
    ELSE {strftime(admission_date + los)}

\* Lines 362-366: the integers drawn for base_charge (of the admission's
\* type) and for the daily rate random.randint(1000, 3000), as pairs; the
\* model takes one pair of range ends per type.
ChargeDraws(admission_type) ==
    CASE admission_type = "Emergency" -> {<<500, 1000>>}
      [] admission_type = "Elective" -> {<<50000, 3000>>}
      [] admission_type = "Urgent" -> {<<2000, 3000>>}

\* Line 368: total_charges = base_charge + (los_days * rate).
TotalCharges(admission_type, los) ==
    {c[1] + los * c[2] : c \in ChargeDraws(admission_type)}

\* Lines 358-359: the number drawn by random.randint(10, 99) and the letter
\* drawn from ['A', 'B', 'C', 'D'], as pairs; the model ties the pair to the
\* admission's type.
RoomDraws(admission_type) ==
    CASE admission_type = "Emergency" -> {<<10, "A">>}
      [] admission_type = "Elective" -> {<<99, "D">>}
      [] admission_type = "Urgent" -> {<<10, "C">>}

\* Lines 352-359: room_number f"{floor}{n:02d}" is the pair <<floor, n>>;
\* the emergency department assigns neither room nor bed.
RoomAndBed(department, floor, draw) ==
    IF department = "EMER"
    THEN [room_number |-> None, bed_number |-> None]
    ELSE [room_number |-> <<floor, draw[1]>>, bed_number |-> draw[2]]

\* Lines 349, 357: dept_info[3] of the admission's department.
FloorOf(department) ==
    (CHOOSE d \in {departments[i] : i \in 1..Len(departments)} :
        d.dept_id = department).floor

\* Lines 410-413: the day offsets random.randint may return for a procedure.
ProcedureDayOffsets(los) == randint(0, Max(1, los - 1))

\* Lines 402-404: the numbers of procedures of an admission.
ProcedureCounts == {0} \cup {Max(1, k) : k \in PoissonDraws}

\* Lines 406-456: the procedures of one admission, given the day offset
\* drawn for each.
NewProcedures(admission_id, admission_date, offsets) ==
    [ i \in 1..Len(offsets) |->
        [ procedure_id   |-> <<"PROC", procedure_counter + i - 1>>,
          admission_id   |-> admission_id,
          procedure_date |-> strftime(admission_date + offsets[i]) ] ]

\* Lines 289-456: one iteration of `for _ in range(num_admissions)`.
GenerateAdmission ==
    /\ pc = "admissions_admission"
    /\ admissions_left > 0
    /\ admission_counter <= MaxAdmissions
    /\ LET patient == patients_with_admissions[patient_index]
           admission_id == <<"ADM", admission_counter>>
       IN  \E placement \in AdmissionPlacements(patient) :
           \E department \in {departments[i].dept_id : i \in 1..Len(departments)} :
           \E admission_type \in AdmissionTypes :
           \E draw \in LosDraws(admission_type) :
           \E discharge_date \in DischargeDates(placement[1], LengthOfStay(draw), placement[2]) :
           \E total_charges \in TotalCharges(admission_type, LengthOfStay(draw)) :
           \E room \in RoomDraws(admission_type) :
           \E num_procedures \in ProcedureCounts :
           \E offsets \in [1..num_procedures -> ProcedureDayOffsets(LengthOfStay(draw))] :
             /\ admissions' = Append(admissions,
                    [ admission_id   |-> admission_id,
                      patient_id     |-> patient.patient_id,
                      admission_date |-> strftime(placement[1]),
                      discharge_date |-> discharge_date,
                      department_id  |-> department,
                      admission_type |-> admission_type,
                      room_number    |->
                          RoomAndBed(department, FloorOf(department), room).room_number,
                      bed_number     |->
                          RoomAndBed(department, FloorOf(department), room).bed_number,
                      total_charges  |-> total_charges ])
             /\ admissions_rerun' = Append(admissions_rerun,
                    [ admission_id   |-> admission_id,
                      patient_id     |->
                          patients_with_admissions_rerun[patient_index].patient_id,
                      total_charges  |-> total_charges ])
             /\ los_days' = Append(los_days, LengthOfStay(draw))
             /\ procedures' = procedures \o NewProcedures(admission_id, placement[1], offsets)
             /\ procedure_counter' = procedure_counter + num_procedures
    /\ admission_counter' = admission_counter + 1
    /\ admissions_left' = admissions_left - 1
    /\ IF admissions_left = 1
       THEN patient_index' = patient_index + 1 /\ pc' = "admissions_patient"
       ELSE UNCHANGED <<patient_index, pc>>
    /\ UNCHANGED <<outsideAdmissions, current_patients, patients_with_admissions,
                   patients_with_admissions_rerun>>

\* `return admissions, procedures`
AdmissionsReturn ==
    /\ pc = "admissions_patient"
    /\ patient_index > Len(patients_with_admissions)
    /\ pc' = "admissions_done"
    /\ UNCHANGED <<outsideAdmissions, admVars>>

\* A population of n_active Active patients followed by n_historic Historic
\* ones, as generate_patient_demographics returns it.
PatientList(n_active, n_historic, clock) ==
    [ i \in 1..(n_active + n_historic) |->
        IF i <= n_active
        THEN NewPatient(i - 1, "Active", 1095, 730, clock)
        ELSE NewPatient(i - 1, "Historic", 1095, 730, clock) ]

\* Catalog rows of lines 38-60: dept_id, floor, bed_capacity.
Dept(dept_id, floor, bed_capacity) ==
    [dept_id |-> dept_id, floor |-> floor, bed_capacity |-> bed_capacity]

\* The populations the admission generator is explored on: the smallest
\* ones whose cohorts are not empty (20 Active for 5%, 7 Historic for 15%).
AdmissionPopulations == {<<20, 0>>, <<2, 7>>}

InitAdmissions ==
    /\ pc = "admissions"
    /\ now = datetime(2024, 12, 15)
    /\ now_rerun = now
    /\ \E pop \in AdmissionPopulations :
         /\ NUM_PATIENTS = pop[1] + pop[2]
         /\ patients = PatientList(pop[1], pop[2], now)
    /\ patients_rerun = patients
    /\ departments = <<Dept("CARD", "2", 30)>>
    /\ medications = <<>>
    /\ AdmIdle
    /\ BedIdle
    /\ MedIdle
    /\ AhsIdle
    /\ SaveIdle

NextAdmissions ==
    SampleCohorts \/ NextCohortPatient \/ GenerateAdmission \/ AdmissionsReturn

SpecAdmissions == InitAdmissions /\ [][NextAdmissions]_vars

(***************************************************************************)
(* generate_bed_management_data                                            *)
(***************************************************************************)
\* Mutant: one bed for every unit of capacity, the last room left with a
\* single bed when the capacity is odd.
RoomsAndLetters_BedPerUnit(bed_capacity) ==
    [ k \in 1..bed_capacity |->
        <<(k + 1) \div 2, IF k % 2 = 1 THEN "A" ELSE "B">> ]

\* Lines 479-481: the (room_num, bed_letter) pairs of a department, in order.
RoomsAndLetters(bed_capacity) ==
    [ k \in 1..(2 * (bed_capacity \div 2)) |->
        <<(k + 1) \div 2, IF k % 2 = 1 THEN "A" ELSE "B">> ]

\* Mutant: at least one room for every department.
DepartmentRooms_AtLeastOne(dept) ==
    [ k \in 1..(2 * Max(1, dept.bed_capacity \div 2)) |->
        <<(k + 1) \div 2, IF k % 2 = 1 THEN "A" ELSE "B">> ]

\* Lines 478-481: the (room_num, bed_letter) pairs of a department; none
\* unless its bed_capacity is positive.
DepartmentRooms(dept) ==
    IF dept.bed_capacity > 0 THEN RoomsAndLetters(dept.bed_capacity) ELSE <<>>

\* Lines 482-503: the beds of one department, given the daily_rate drawn for
\* each.  room_number f"{floor}{room_num:02d}" is the pair <<floor, room_num>>.
NewBeds(dept, rates) ==
    [ k \in 1..Len(rates) |->
        [ bed_id        |-> <<"BED", bed_counter + k - 1>>,
          department_id |-> dept.dept_id,
          room_number   |-> <<dept.floor, DepartmentRooms(dept)[k][1]>>,
          bed_number    |-> DepartmentRooms(dept)[k][2],
          is_active     |-> TRUE,
          daily_rate    |-> rates[k] ] ]

\* Lines 469-474: the lists and counters.
BedsEnter ==
    /\ pc = "beds"
    /\ bed_inventory' = <<>>
    /\ bed_bookings' = <<>>
    /\ bed_availability' = <<>>
    /\ bed_counter' = 1
    /\ booking_counter' = 1
    /\ dept_index' = 1
    /\ pc' = "beds_inventory"
    /\ UNCHANGED <<outsideBeds, current_date, bed_index>>

\* Lines 477-503: one iteration of `for ... in departments`.
GenerateDepartmentBeds ==
    /\ pc = "beds_inventory"
    /\ dept_index <= Len(departments)
    /\ LET dept == departments[dept_index]
           n == Len(DepartmentRooms(dept))
       IN  \E rates \in [1..n -> randint(800, 3000)] :
             /\ bed_inventory' = bed_inventory \o NewBeds(dept, rates)
             /\ bed_counter' = bed_counter + n
    /\ dept_index' = dept_index + 1
    /\ UNCHANGED <<pc, outsideBeds, bed_bookings, bed_availability,
                   booking_counter, current_date, bed_index>>

bed_start_date == datetime(2024, 1, 1)

\* The number of days of the window the model runs through: the code's
\* end_date is datetime(2024, 12, 31), 366 days.
WindowDays == 2

bed_end_date == bed_start_date + WindowDays - 1

\* Lines 507-512.
StartDailyLoop ==
    /\ pc = "beds_inventory"
    /\ dept_index > Len(departments)
    /\ current_date' = bed_start_date
    /\ bed_index' = 1
    /\ pc' = "beds_daily"
    /\ UNCHANGED <<outsideBeds, bed_inventory, bed_bookings,
                   bed_availability, bed_counter, booking_counter, dept_index>>

\* Mutant: the last day of the window left out.
InWindow_Exclusive(day) == day < bed_end_date

\* Line 513: `while current_date <= end_date`.
InWindow(day) == day <= bed_end_date

\* datetime.weekday(): Monday is 0 (1970-01-01 was a Thursday).
weekday(day) == (day + 3) % 7

\* Lines 517-530: the statuses a (bed, day) may get.  The draw of line 518 is
\* overwritten; the weekday only changes the odds of the draw that counts.
BedStatuses(day) ==
    LET is_occupied == IF weekday(day) < 5 THEN chance ELSE chance
    IN  {IF o THEN "Occupied" ELSE "Available" : o \in is_occupied}
        \cup choice(<<"Maintenance", "Cleaning", "Out of Service">>)

\* Mutant: the check-in dated the day after the availability record.
NewBooking_NextDayCheckIn(bed, patient_number, nights) ==
    [ booking_id             |-> <<"BOOK", booking_counter>>,
      bed_id                 |-> bed.bed_id,
      patient_id             |-> <<"PAT", patient_number>>,
      check_in_date          |-> strftime(current_date + 1),
      expected_checkout_date |-> strftime(current_date + 1 + nights),
      total_nights           |-> nights,
      nightly_rate           |-> bed.daily_rate,
      total_charges          |-> bed.daily_rate * nights ]

\* Mutant: total_charges is one night's rate.
NewBooking_OneNight(bed, patient_number, nights) ==
    [ booking_id             |-> <<"BOOK", booking_counter>>,
      bed_id                 |-> bed.bed_id,
      patient_id             |-> <<"PAT", patient_number>>,
      check_in_date          |-> strftime(current_date),
      expected_checkout_date |-> strftime(current_date + nights),
      total_nights           |-> nights,
      nightly_rate           |-> bed.daily_rate,
      total_charges          |-> bed.daily_rate ]

\* Lines 543-569: the booking of an occupied (bed, day).
NewBooking(bed, patient_number, nights) ==
    [ booking_id             |-> <<"BOOK", booking_counter>>,
      bed_id                 |-> bed.bed_id,
      patient_id             |-> <<"PAT", patient_number>>,
      check_in_date          |-> strftime(current_date),
      expected_checkout_date |-> strftime(current_date + nights),
      total_nights           |-> nights,
      nightly_rate           |-> bed.daily_rate,
      total_charges          |-> bed.daily_rate * nights ]

\* Line 547: the upper end of the draw of a booking's patient number.
LastBookablePatient == Min(NUM_PATIENTS, 10000)

\* Lines 516-569: one iteration of `for bed in bed_inventory`.  With
\* min(NUM_PATIENTS, 10000) < 1 the randint of line 547 raises ValueError,
\* after the availability record has been appended.
GenerateBedDay ==
    /\ pc = "beds_daily"
    /\ InWindow(current_date)
    /\ bed_index <= Len(bed_inventory)
    /\ LET bed == bed_inventory[bed_index]
       IN  \E status \in BedStatuses(current_date) :
             /\ bed_availability' = Append(bed_availability,
                    [ availability_id |-> <<"AVAIL", Len(bed_availability) + 1>>,
                      bed_id          |-> bed.bed_id,
                      date            |-> strftime(current_date),
                      status          |-> status ])
             /\ IF status # "Occupied"
                THEN /\ bed_index' = bed_index + 1
                     /\ UNCHANGED <<pc, bed_bookings, booking_counter>>
                ELSE IF randint(1, LastBookablePatient) = {}
                THEN /\ pc' = "raised"
                     /\ booking_counter' = booking_counter + 1
                     /\ UNCHANGED <<bed_bookings, bed_index>>
                ELSE \E patient_number \in randint(1, LastBookablePatient) :
                     \E nights \in randint(1, 14) :
                       /\ bed_bookings' = Append(bed_bookings,
                              NewBooking(bed, patient_number, nights))
                       /\ booking_counter' = booking_counter + 1
                       /\ bed_index' = bed_index + 1
                       /\ UNCHANGED pc
    /\ UNCHANGED <<outsideBeds, bed_inventory, bed_counter, dept_index, current_date>>

\* Mutant: the loop over the beds started again on the same day.
NextBedDay_SameDay ==
    /\ pc = "beds_daily"
    /\ InWindow(current_date)
    /\ bed_index > Len(bed_inventory)
    /\ bed_index' = 1
    /\ UNCHANGED <<pc, outsideBeds, bed_inventory, bed_bookings, bed_availability,
                   bed_counter, booking_counter, dept_index, current_date>>

\* Line 571: `current_date += timedelta(days=1)`, after the last bed.
NextBedDay ==
    /\ pc = "beds_daily"
    /\ InWindow(current_date)
    /\ bed_index > Len(bed_inventory)
    /\ current_date' = current_date + 1
    /\ bed_index' = 1
    /\ UNCHANGED <<pc, outsideBeds, bed_inventory, bed_bookings,
                   bed_availability, bed_counter, booking_counter, dept_index>>

\* Lines 576-577: `return bed_inventory, bed_bookings, bed_availability`.
BedsReturn ==
    /\ pc = "beds_daily"
    /\ ~InWindow(current_date)
    /\ pc' = "beds_done"
    /\ UNCHANGED <<outsideBeds, bedVars>>

\* The catalogs the bed generator is explored on: an odd capacity next to a
\* department without beds (as RADI has), and a capacity of one.
BedCatalogs ==
    { <<Dept("CARD", "2", 3), Dept("RADI", "B1", 0)>>,
      <<Dept("PSYC", "1", 1), Dept("RADI", "B1", 0)>> }

InitBeds ==
    /\ pc = "beds"
    /\ NUM_PATIENTS \in {0, 1}
    /\ now = datetime(2024, 12, 15)
    /\ now_rerun = now
    /\ patients = PatientList(NUM_PATIENTS, 0, now)
    /\ patients_rerun = patients
    /\ departments \in BedCatalogs
    /\ medications = <<>>
    /\ AdmIdle
    /\ BedIdle
    /\ MedIdle
    /\ AhsIdle
    /\ SaveIdle

NextBeds ==
    \/ BedsEnter
    \/ GenerateDepartmentBeds
    \/ StartDailyLoop
    \/ GenerateBedDay
    \/ NextBedDay
    \/ BedsReturn

SpecBeds == InitBeds /\ [][NextBeds]_vars

(***************************************************************************)
(* generate_medication_data                                                *)
(***************************************************************************)
\* A row of the medication catalog (lines 105-126); unit_cost in cents.
Med(med_code, med_name, med_class, category, form, strength, unit_cost) ==
    [ med_code |-> med_code, med_name |-> med_name, med_class |-> med_class,
      category |-> category, form |-> form, strength |-> strength,
      unit_cost |-> unit_cost ]

\* Lines 583-588.
MedicationsEnter ==
    /\ pc = "medications"
    /\ pharmacy_inventory' = <<>>
    /\ medication_orders' = <<>>
    /\ medication_dispensing' = <<>>
    /\ order_counter' = 1
    /\ dispensing_counter' = 1
    /\ medication_index' = 1
    /\ order_dispensed' = <<>>
    /\ pc' = "medications_inventory"
    /\ UNCHANGED <<outsideMedications, admission_index, orders_left>>

\* Line 593: range(1, stop), the lot_num values of one medication.
LotNumbers(stop) == 1..(stop - 1)

\* Lines 594-611: the lots of one medication, n of them.
NewLots(med, n) ==
    [ k \in 1..n |->
        [ inventory_id         |-> <<"INV", Len(pharmacy_inventory) + k>>,
          medication_code      |-> med.med_code,
          medication_name      |-> med.med_name,
          medication_class     |-> med.med_class,
          therapeutic_category |-> med.category,
          dosage_form          |-> med.form,
          strength             |-> med.strength,
          unit_cost            |-> med.unit_cost,
          lot_number           |-> <<"LOT", Len(pharmacy_inventory) + k>> ] ]

\* Lines 591-611: one iteration of `for ... in medications`.
GenerateLots ==
    /\ pc = "medications_inventory"
    /\ medication_index <= Len(medications)
    /\ \E stop \in randint(3, 8) :
         pharmacy_inventory' = pharmacy_inventory
             \o NewLots(medications[medication_index], Cardinality(LotNumbers(stop)))
    /\ medication_index' = medication_index + 1
    /\ UNCHANGED <<pc, outsideMedications, medication_orders, medication_dispensing,
                   order_counter, dispensing_counter, admission_index, orders_left,
                   order_dispensed>>

\* Line 614: the loop over the admissions starts.
StartOrders ==
    /\ pc = "medications_inventory"
    /\ medication_index > Len(medications)
    /\ admission_index' = 1
    /\ pc' = "medications_admission"
    /\ UNCHANGED <<outsideMedications, pharmacy_inventory, medication_orders,
                   medication_dispensing, order_counter, dispensing_counter,
                   medication_index, orders_left, order_dispensed>>

MaxOrders == 2

\* Line 616: max(1, int(np.random.poisson(3.2))).
MedicationCounts == {Max(1, k) : k \in {0, 2}}

\* Lines 614-616: the next admission; whether it has medications, how many.
NextAdmissionOrders ==
    /\ pc = "medications_admission"
    /\ admission_index <= Len(admissions)
    /\ order_counter <= MaxOrders
    /\ \E has_medications \in chance :
         IF has_medications
         THEN /\ \E num_medications \in MedicationCounts : orders_left' = num_medications
              /\ pc' = "medications_order"
              /\ UNCHANGED admission_index
         ELSE /\ admission_index' = admission_index + 1
              /\ UNCHANGED <<pc, orders_left>>
    /\ UNCHANGED <<outsideMedications, pharmacy_inventory, medication_orders,
                   medication_dispensing, order_counter, dispensing_counter,
                   medication_index, order_dispensed>>

\* Mutant: the whole catalog for every department.
med_options_unfiltered(dept_id) == medications

\* Lines 622-633: the candidates for an order of a department.
med_options(dept_id) ==
    CASE dept_id = "CARD" ->
           SelectSeq(medications, LAMBDA m : m.category = "Cardiovascular")
      [] dept_id = "NEUR" ->
           SelectSeq(medications, LAMBDA m : m.category \in {"Neurological", "Pain Management"})
      [] dept_id = "ENDO" ->
           SelectSeq(medications, LAMBDA m : m.category = "Endocrine")
      [] dept_id = "GAST" ->
           SelectSeq(medications, LAMBDA m : m.category = "Gastrointestinal")
      [] OTHER -> medications

\* Mutant: any lot of the inventory, whatever its medication.
matching_inventory_any(med_code) == pharmacy_inventory

\* Line 677: the lots of the order's medication.
matching_inventory(med_code) ==
    SelectSeq(pharmacy_inventory, LAMBDA inv : inv.medication_code = med_code)

\* Mutant: the demo limit of line 669 left out.
DispensingIterations_NoLimit(quantity_ordered, duration_days) ==
    Min(quantity_ordered, duration_days * 4)

\* Lines 667-669: the number of iterations of
\* `for dose_num in range(1, min(doses_to_dispense + 1, 10))`.
DispensingIterations(quantity_ordered, duration_days) ==
    LET doses_to_dispense == Min(quantity_ordered, duration_days * 4)
    IN  Max(0, Min(doses_to_dispense + 1, 10) - 1)

\* Lines 669-698: the dispensing records of one order.  An iteration whose
\* medication has no lot appends nothing.  inventory_item is the lot drawn;
\* the model takes the same draw for every dose of one order.
NewDispensing(order_id, patient_id, med, iterations, inventory_item) ==
    [ k \in 1..iterations |->
        [ dispensing_id      |-> <<"DISP", dispensing_counter + k - 1>>,
          order_id           |-> order_id,
          patient_id         |-> patient_id,
          medication_code    |-> med.med_code,
          inventory_id       |-> inventory_item.inventory_id,
          lot_number         |-> inventory_item.lot_number,
          quantity_dispensed |-> 1,
          cost_per_unit      |-> med.unit_cost,
          total_cost         |-> med.unit_cost * 1 ] ]

\* The frame of an order, and the end of one loop iteration.
OrderDone ==
    /\ order_counter' = order_counter + 1
    /\ orders_left' = orders_left - 1
    /\ IF orders_left = 1
       THEN admission_index' = admission_index + 1 /\ pc' = "medications_admission"
       ELSE UNCHANGED <<admission_index, pc>>

\* Lines 618-698: one iteration of `for _ in range(num_medications)`.  With
\* no candidate for the department, random.choice raises IndexError.
GenerateOrder ==
    /\ pc = "medications_order"
    /\ orders_left > 0
    /\ order_counter <= MaxOrders
    /\ LET admission == admissions[admission_index]
           order_id == <<"ORD", order_counter>>
           options == med_options(admission.department_id)
       IN  IF options = <<>>
           THEN /\ pc' = "raised"
                /\ order_counter' = order_counter + 1
                /\ UNCHANGED <<medication_orders, medication_dispensing, dispensing_counter,
                               admission_index, orders_left, order_dispensed>>
           ELSE \E selected_med \in choice(options) :
                \E quantity_ordered \in randint(1, 30) :
                \E duration_days \in randint(1, 14) :
                \E dispensed \in chance :
                  LET iterations == IF dispensed
                                    THEN DispensingIterations(quantity_ordered, duration_days)
                                    ELSE 0
                      lots == matching_inventory(selected_med.med_code)
                  IN  /\ medication_orders' = Append(medication_orders,
                             [ order_id         |-> order_id,
                               admission_id     |-> admission.admission_id,
                               patient_id       |-> admission.patient_id,
                               medication_code  |-> selected_med.med_code,
                               medication_name  |-> selected_med.med_name,
                               order_date       |-> strftime(strptime(admission.admission_date)),
                               quantity_ordered |-> quantity_ordered,
                               duration_days    |-> duration_days ])
                      /\ order_dispensed' = Append(order_dispensed, dispensed)
                      /\ dispensing_counter' = dispensing_counter + iterations
                      /\ IF lots = <<>> \/ iterations = 0
                         THEN UNCHANGED medication_dispensing
                         ELSE \E inventory_item \in choice(lots) :
                                medication_dispensing' = medication_dispensing
                                    \o NewDispensing(order_id, admission.patient_id,
                                                     selected_med, iterations, inventory_item)
                      /\ OrderDone
    /\ UNCHANGED <<outsideMedications, pharmacy_inventory, medication_index>>

\* Lines 700-701: `return medication_orders, medication_dispensing, pharmacy_inventory`.
MedicationsReturn ==
    /\ pc = "medications_admission"
    /\ admission_index > Len(admissions)
    /\ pc' = "medications_done"
    /\ UNCHANGED <<outsideMedications, medVars>>

\* Two admissions of one Active patient, as the admission generator appends
\* them for a population of three Active patients.
MedicationAdmissions ==
    << [ admission_id   |-> <<"ADM", 1>>,
         patient_id     |-> <<"PAT", 1>>,
         admission_date |-> strftime(admission_current_date - 30),
         discharge_date |-> strftime(admission_current_date - 30 + 1),
         department_id  |-> "CARD",
         admission_type |-> "Emergency",
         room_number    |-> <<"2", 10>>,
         bed_number     |-> "A",
         total_charges  |-> 500 + 1 * 1000 ],
       [ admission_id   |-> <<"ADM", 2>>,
         patient_id     |-> <<"PAT", 1>>,
         admission_date |-> strftime(admission_current_date - 730),
         discharge_date |-> strftime(admission_current_date - 730 + 30),
         department_id  |-> "PEDI",
         admission_type |-> "Urgent",
         room_number    |-> <<"2", 10>>,
         bed_number     |-> "C",
         total_charges  |-> 15000 + 30 * 3000 ] >>

InitMedications ==
    /\ pc = "medications"
    /\ NUM_PATIENTS = 3
    /\ now = datetime(2024, 12, 15)
    /\ now_rerun = now
    /\ patients = PatientList(3, 0, now)
    /\ patients_rerun = patients
    /\ departments = <<Dept("CARD", "2", 30), Dept("PEDI", "2", 25)>>
    /\ medications =
         << Med("MED001", "Lisinopril", "ACE Inhibitor", "Cardiovascular", "Tablet", "10mg", 1550),
            Med("MED008", "Azithromycin", "Antibiotic", "Anti-Infective", "Tablet", "250mg", 4500) >>
    /\ current_patients = <<>>
    /\ patients_with_admissions = <<patients[1]>>
    /\ patient_index = 2
    /\ admissions_left = 0
    /\ admission_counter = 3
    /\ procedure_counter = 1
    /\ admissions = MedicationAdmissions
    /\ procedures = <<>>
    /\ los_days = <<1, 30>>
    /\ patients_with_admissions_rerun = <<patients_rerun[1]>>
    /\ admissions_rerun =
         [ n \in 1..Len(admissions) |->
             [ admission_id  |-> admissions[n].admission_id,
               patient_id    |-> admissions[n].patient_id,
               total_charges |-> admissions[n].total_charges ] ]
    /\ BedIdle
    /\ MedIdle
    /\ AhsIdle
    /\ SaveIdle

NextMedications ==
    \/ MedicationsEnter
    \/ GenerateLots
    \/ StartOrders
    \/ NextAdmissionOrders
    \/ GenerateOrder
    \/ MedicationsReturn

SpecMedications == InitMedications /\ [][NextMedications]_vars

MaxActive == 59

\* The admission generator's first step on every Active count up to MaxActive.
InitCohort ==
    /\ pc = "admissions"
    /\ now = datetime(2024, 12, 15)
    /\ now_rerun = now
    /\ \E n_active \in 0..MaxActive, n_historic \in {0, 7} :
         /\ NUM_PATIENTS = n_active + n_historic
         /\ patients = PatientList(n_active, n_historic, now)
    /\ patients_rerun = patients
    /\ departments = <<Dept("CARD", "2", 30)>>
    /\ medications = <<>>
    /\ AdmIdle
    /\ BedIdle
    /\ MedIdle
    /\ AhsIdle
    /\ SaveIdle

NextCohort == SampleCohorts

SpecCohort == InitCohort /\ [][NextCohort]_vars

\* ---- claims on the admission generator ----

PatientOf(patient_id) ==
    CHOOSE p \in {patients[i] : i \in 1..Len(patients)} : p.patient_id = patient_id

Distinct(list) == \A i, j \in 1..Len(list) : list[i] = list[j] => i = j

\* C1: every procedure's procedure_date lies in [admission_date,
\* admission_date + LOS - 1] of the admission it references; with LOS = 1
\* that is the admission day itself.
C1_ProcedureWithinStay ==
    \A k \in 1..Len(procedures) :
      \E n \in 1..Len(admissions) :
        /\ admissions[n].admission_id = procedures[k].admission_id
        /\ strptime(procedures[k].procedure_date) >= strptime(admissions[n].admission_date)
        /\ strptime(procedures[k].procedure_date)
               <= strptime(admissions[n].admission_date) + los_days[n] - 1

\* C2: every admission's discharge_date is null or lies 1 to 30 days after
\* its admission_date, whatever the type-specific draw returned.
C2_DischargeWithinBounds ==
    \A n \in 1..Len(admissions) :
      \/ admissions[n].discharge_date = None
      \/ strptime(admissions[n].discharge_date) - strptime(admissions[n].admission_date)
             \in 1..30

\* A discharged Elective admission (its draw is negative) next to a
\* discharged admission whose draw exceeded the cap.
C2_Witness ==
    /\ \E n \in 1..Len(admissions) :
         /\ admissions[n].admission_type = "Elective"
         /\ admissions[n].discharge_date # None
    /\ \E n \in 1..Len(admissions) :
         /\ admissions[n].admission_type = "Urgent"
         /\ admissions[n].discharge_date # None
         /\ los_days[n] = 30

\* C4 as stated: the currently-admitted cohort has round(0.05 x active_count)
\* members, all distinct and all Active.
C4_CohortSizeRounded ==
    pc # "admissions" =>
      /\ Len(current_patients) = RoundOfShare(Len(active_patients), CURRENT_ADMISSION_RATE)
      /\ Distinct(current_patients)
      /\ \A i \in 1..Len(current_patients) : current_patients[i].patient_status = "Active"

\* C4 amended: the currently-admitted cohort has floor(0.05 x active_count)
\* members, all distinct, all Active patients of the population.
C4_CohortSizeTruncated ==
    pc # "admissions" =>
      /\ Len(current_patients) * 100 <= Len(active_patients) * CURRENT_ADMISSION_RATE
      /\ Len(active_patients) * CURRENT_ADMISSION_RATE < (Len(current_patients) + 1) * 100
      /\ Distinct(current_patients)
      /\ \A i \in 1..Len(current_patients) :
           /\ current_patients[i].patient_status = "Active"
           /\ InList(current_patients[i], patients)

\* Two members drawn from a count whose 5% has a fractional part >= 0.5.
C4_Witness ==
    /\ pc # "admissions"
    /\ Len(current_patients) = 2
    /\ (Len(active_patients) * CURRENT_ADMISSION_RATE) % 100 >= 50

\* C10: an admission with a null discharge_date belongs to an Active patient
\* of the currently-admitted cohort; every other admission is discharged.
C10_OpenAdmissionOnlyInCohort ==
    \A n \in 1..Len(admissions) :
      admissions[n].discharge_date = None =>
        /\ PatientOf(admissions[n].patient_id).patient_status = "Active"
        /\ InList(PatientOf(admissions[n].patient_id), current_patients)

\* An open admission, next to a discharged admission of a patient outside
\* the cohort.
C10_Witness ==
    /\ \E n \in 1..Len(admissions) : admissions[n].discharge_date = None
    /\ \E n \in 1..Len(admissions) :
         /\ admissions[n].discharge_date # None
         /\ ~InList(PatientOf(admissions[n].patient_id), current_patients)

\* ---- claims on the bed generator ----

\* C5: once the bed generator has returned, every bed of the inventory has
\* exactly one availability record for every day of the window.
C5_OneRecordPerBedAndDay ==
    pc = "beds_done" =>
      \A b \in 1..Len(bed_inventory) :
        \A day \in bed_start_date..bed_end_date :
          Cardinality({k \in 1..Len(bed_availability) :
                          /\ bed_availability[k].bed_id = bed_inventory[b].bed_id
                          /\ bed_availability[k].date = strftime(day)}) = 1

\* The generator has returned with beds, one of them overridden to an
\* out-of-service status.
C5_Witness ==
    /\ pc = "beds_done"
    /\ bed_inventory # <<>>
    /\ \E k \in 1..Len(bed_availability) : bed_availability[k].status = "Maintenance"

\* C6: every booking names a bed of the inventory, carries that bed's
\* daily_rate as nightly_rate, and charges nightly_rate x total_nights for
\* 1 to 14 nights.
C6_BookingChargesConsistent ==
    \A k \in 1..Len(bed_bookings) :
      /\ \E b \in 1..Len(bed_inventory) :
           /\ bed_inventory[b].bed_id = bed_bookings[k].bed_id
           /\ bed_inventory[b].daily_rate = bed_bookings[k].nightly_rate
      /\ bed_bookings[k].total_charges
             = bed_bookings[k].nightly_rate * bed_bookings[k].total_nights
      /\ bed_bookings[k].total_nights \in 1..14

\* Bookings of 14 nights and of one night, on beds with different rates.
C6_Witness ==
    /\ \E k \in 1..Len(bed_bookings) :
         bed_bookings[k].total_nights = 14 /\ bed_bookings[k].nightly_rate = 3000
    /\ \E k \in 1..Len(bed_bookings) :
         bed_bookings[k].total_nights = 1 /\ bed_bookings[k].nightly_rate = 800

\* ---- claims on the medication generator ----

DispensingOf(order_id) ==
    {k \in 1..Len(medication_dispensing) : medication_dispensing[k].order_id = order_id}

\* C7: every dispensing record references an existing order and an existing
\* inventory row (inventory_id and lot_number of the same row) whose
\* medication_code is the order's.
C7_LotMatchesOrder ==
    \A k \in 1..Len(medication_dispensing) :
      \E n \in 1..Len(medication_orders) :
        /\ medication_orders[n].order_id = medication_dispensing[k].order_id
        /\ \E j \in 1..Len(pharmacy_inventory) :
             /\ pharmacy_inventory[j].inventory_id = medication_dispensing[k].inventory_id
             /\ pharmacy_inventory[j].lot_number = medication_dispensing[k].lot_number
             /\ pharmacy_inventory[j].medication_code = medication_orders[n].medication_code

\* A dispensing record for each of the two medications, one of them from a
\* lot that is not the first of its medication.
C7_Witness ==
    /\ \E k \in 1..Len(medication_dispensing) :
         /\ medication_dispensing[k].medication_code = "MED008"
         /\ medication_dispensing[k].inventory_id # matching_inventory("MED008")[1].inventory_id
    /\ \E k \in 1..Len(medication_dispensing) :
         medication_dispensing[k].medication_code = "MED001"

\* C8: an order with quantity_ordered q and duration_days d has at most
\* min(q, 4 x d, 9) dispensing records, and none when it fell in the
\* not-dispensed branch.
C8_DispensingBounded ==
    \A n \in 1..Len(medication_orders) :
      LET count == Cardinality(DispensingOf(medication_orders[n].order_id))
          q == medication_orders[n].quantity_ordered
          d == medication_orders[n].duration_days
      IN  /\ count <= q
          /\ count <= 4 * d
          /\ count <= 9
          /\ ~order_dispensed[n] => count = 0

\* An order cut at 9 records next to an order that was not dispensed.
C8_Witness ==
    /\ \E n \in 1..Len(medication_orders) :
         Cardinality(DispensingOf(medication_orders[n].order_id)) = 9
    /\ \E n \in 1..Len(medication_orders) : ~order_dispensed[n]

\* C9: every catalog medication has 3 to 7 lots in the inventory, each
\* carrying the medication's code, name, class, category, form, strength and
\* unit cost.
C9_ThreeToSevenLots ==
    pc \in {"medications_admission", "medications_order", "medications_done"} =>
      \A i \in 1..Len(medications) :
        LET lots == matching_inventory(medications[i].med_code)
        IN  /\ Len(lots) >= 3
            /\ Len(lots) <= 7
            /\ \A j \in 1..Len(lots) :
                 /\ lots[j].medication_name = medications[i].med_name
                 /\ lots[j].medication_class = medications[i].med_class
                 /\ lots[j].therapeutic_category = medications[i].category
                 /\ lots[j].dosage_form = medications[i].form
                 /\ lots[j].strength = medications[i].strength
                 /\ lots[j].unit_cost = medications[i].unit_cost

\* ---- further claims on the admission generator ----

\* C11: every admission of a Historic patient is dated at least 730 days
\* before the reference current date 2024-12-15, and the window its date is
\* drawn from holds more than one date.
C11_HistoricAdmissionsTwoYearsOld ==
    \A n \in 1..Len(admissions) :
      LET patient == PatientOf(admissions[n].patient_id)
      IN  patient.patient_status = "Historic" =>
            /\ admission_current_date - strptime(admissions[n].admission_date) >= 730
            /\ Cardinality({placement[1] : placement \in AdmissionPlacements(patient)}) > 1

(***************************************************************************)
(* generate_medication_data on a catalog without a department's class      *)
(***************************************************************************)
\* Catalogs of two rows of lines 105-126: one without an Endocrine entry, one
\* with MED002.
MedicationCatalogs ==
    { << Med("MED001", "Lisinopril", "ACE Inhibitor", "Cardiovascular", "Tablet", "10mg", 1550),
         Med("MED008", "Azithromycin", "Antibiotic", "Anti-Infective", "Tablet", "250mg", 4500) >>,
      << Med("MED001", "Lisinopril", "ACE Inhibitor", "Cardiovascular", "Tablet", "10mg", 1550),
         Med("MED002", "Metformin", "Antidiabetic", "Endocrine", "Tablet", "500mg", 1225) >> }

\* The admissions of MedicationAdmissions, the second one in Endocrinology.
FilterAdmissions ==
    [ n \in 1..Len(MedicationAdmissions) |->
        IF n = 2
        THEN [MedicationAdmissions[n] EXCEPT !.department_id = "ENDO"]
        ELSE MedicationAdmissions[n] ]

InitFilter ==
    /\ pc = "medications"
    /\ NUM_PATIENTS = 3
    /\ now = datetime(2024, 12, 15)
    /\ now_rerun = now
    /\ patients = PatientList(3, 0, now)
    /\ patients_rerun = patients
    /\ departments = <<Dept("CARD", "2", 30), Dept("ENDO", "2", 12)>>
    /\ medications \in MedicationCatalogs
    /\ current_patients = <<>>
    /\ patients_with_admissions = <<patients[1]>>
    /\ patient_index = 2
    /\ admissions_left = 0
    /\ admission_counter = 3
    /\ procedure_counter = 1
    /\ admissions = FilterAdmissions
    /\ procedures = <<>>
    /\ los_days = <<1, 30>>
    /\ patients_with_admissions_rerun = <<patients_rerun[1]>>
    /\ admissions_rerun =
         [ n \in 1..Len(admissions) |->
             [ admission_id  |-> admissions[n].admission_id,
               patient_id    |-> admissions[n].patient_id,
               total_charges |-> admissions[n].total_charges ] ]
    /\ BedIdle
    /\ MedIdle
    /\ AhsIdle
    /\ SaveIdle

SpecFilter == InitFilter /\ [][NextMedications]_vars

\* C12: when the department's filter leaves no candidate, the order is still
\* appended, with a medication of the unfiltered catalog, and the generator
\* does not raise.
C12_EmptyFilterFallsBack ==
    [][ ( /\ pc = "medications_order"
          /\ med_options(admissions[admission_index].department_id) = <<>> )
        => ( /\ pc' # "raised"
             /\ Len(medication_orders') = Len(medication_orders) + 1
             /\ \E i \in 1..Len(medications) :
                  medications[i].med_code
                      = medication_orders'[Len(medication_orders')].medication_code ) ]_vars

(***************************************************************************)
(* generate_allied_health_data                                             *)
(***************************************************************************)
\* Lines 707-708.
AlliedEnter ==
    /\ pc = "allied"
    /\ allied_health_services_data' = <<>>
    /\ service_counter' = 1
    /\ service_index' = 1
    /\ pc' = "allied_admission"
    /\ UNCHANGED <<outsideAllied, services_left>>

\* Line 712: max(1, int(np.random.poisson(2.1))).
ServiceCounts == {Max(1, k) : k \in {0, 2}}

\* Lines 710-712: the next admission; whether it has services, how many.
NextAdmissionServices ==
    /\ pc = "allied_admission"
    /\ service_index <= Len(admissions)
    /\ \E has_services \in chance :
         IF has_services
         THEN /\ \E num_services \in ServiceCounts : services_left' = num_services
              /\ pc' = "allied_service"
              /\ UNCHANGED service_index
         ELSE /\ service_index' = service_index + 1
              /\ UNCHANGED <<pc, services_left>>
    /\ UNCHANGED <<outsideAllied, allied_health_services_data, service_counter>>

\* Line 729: the allied-health generator's own "current date".
allied_current_date == datetime(2024, 12, 15)

\* Lines 722-730: the local los_days of a service's admission.
service_los_days(admission) ==
    LET admission_date == strptime(admission.admission_date)
        discharge_date == IF admission.discharge_date # None
                          THEN strptime(admission.discharge_date)
                          ELSE allied_current_date
    IN  discharge_date - admission_date

\* Mutant: the upper end of the draw one day past the end of the stay.
ServiceDayOffsets_PastEnd(admission) ==
    randint(0, Max(1, service_los_days(admission)) + 1)

\* Line 732: the day offsets random.randint may return for a service.
ServiceDayOffsets(admission) == randint(0, Max(1, service_los_days(admission)))

\* Mutant: every service numbered after the admission it belongs to.
NewService_NumberedByAdmission(admission, offset) ==
    [ service_id   |-> <<"AHS", service_index>>,
      admission_id |-> admission.admission_id,
      patient_id   |-> admission.patient_id,
      service_date |-> strftime(strptime(admission.admission_date) + offset) ]

\* Mutant: the patient of the first admission copied onto every service.
NewService_FirstPatient(admission, offset) ==
    [ service_id   |-> <<"AHS", service_counter>>,
      admission_id |-> admission.admission_id,
      patient_id   |-> admissions[1].patient_id,
      service_date |-> strftime(strptime(admission.admission_date) + offset) ]

\* Lines 715, 747-766: the record appended for a service.
NewService(admission, offset) ==
    [ service_id   |-> <<"AHS", service_counter>>,
      admission_id |-> admission.admission_id,
      patient_id   |-> admission.patient_id,
      service_date |-> strftime(strptime(admission.admission_date) + offset) ]

\* Lines 714-766: one iteration of `for _ in range(num_services)`.
GenerateService ==
    /\ pc = "allied_service"
    /\ services_left > 0
    /\ LET admission == admissions[service_index]
       IN  \E offset \in ServiceDayOffsets(admission) :
             allied_health_services_data' =
                 Append(allied_health_services_data, NewService(admission, offset))
    /\ service_counter' = service_counter + 1
    /\ services_left' = services_left - 1
    /\ IF services_left = 1
       THEN service_index' = service_index + 1 /\ pc' = "allied_admission"
       ELSE UNCHANGED <<service_index, pc>>
    /\ UNCHANGED outsideAllied

\* Mutant: the end date taken for an open admission (line 729) written back
\* into the admission before the return.
AlliedReturn_ClosingAdmissions ==
    /\ pc = "allied_admission"
    /\ service_index > Len(admissions)
    /\ pc' = "allied_done"
    /\ admissions' =
         [ n \in 1..Len(admissions) |->
             IF admissions[n].discharge_date = None
             THEN [admissions[n] EXCEPT !.discharge_date = strftime(allied_current_date)]
             ELSE admissions[n] ]
    /\ UNCHANGED <<patVars, catalogs, bedVars, medVars, saveVars, ahsVars,
                   current_patients, patients_with_admissions, patient_index,
                   admissions_left, admission_counter, procedure_counter, procedures,
                   los_days, patients_with_admissions_rerun, admissions_rerun>>

\* Lines 768-769: `return allied_health_services_data`.
AlliedReturn ==
    /\ pc = "allied_admission"
    /\ service_index > Len(admissions)
    /\ pc' = "allied_done"
    /\ UNCHANGED <<outsideAllied, ahsVars>>

\* Lines 293-368: the draws of one admission of a patient that decide its
\* dates, its type and its charges.
AdmissionDraws(patient) ==
    UNION { UNION { UNION {
      { [ placement |-> placement, admission_type |-> admission_type,
          los_days |-> LengthOfStay(draw), discharge_date |-> discharge_date,
          total_charges |-> total_charges,
          room |-> RoomAndBed("CARD", FloorOf("CARD"), room) ] :
        discharge_date \in DischargeDates(placement[1], LengthOfStay(draw), placement[2]),
        total_charges \in TotalCharges(admission_type, LengthOfStay(draw)),
        room \in RoomDraws(admission_type) } :
      draw \in LosDraws(admission_type) } :
      admission_type \in AdmissionTypes } :
      placement \in AdmissionPlacements(patient) }

\* Lines 381-400: the record appended as admission number n of a patient.
AdmissionRecord(n, patient, x) ==
    [ admission_id   |-> <<"ADM", n>>,
      patient_id     |-> patient.patient_id,
      admission_date |-> strftime(x.placement[1]),
      discharge_date |-> x.discharge_date,
      department_id  |-> "CARD",
      admission_type |-> x.admission_type,
      room_number    |-> x.room.room_number,
      bed_number     |-> x.room.bed_number,
      total_charges  |-> x.total_charges ]

\* What the second run holds for a list of admissions.
RerunOf(list) ==
    [ n \in 1..Len(list) |->
        [ admission_id  |-> list[n].admission_id,
          patient_id    |-> list[n].patient_id,
          total_charges |-> list[n].total_charges ] ]

\* The admissions the allied-health generator meets first: one admission of
\* the first patient with admissions (in the currently-admitted cohort when
\* there is one), alone or followed by an admission of the next patient.
InitAllied ==
    /\ pc = "allied"
    /\ now = datetime(2024, 12, 15)
    /\ now_rerun = now
    /\ \E pop \in AdmissionPopulations :
         /\ NUM_PATIENTS = pop[1] + pop[2]
         /\ patients = PatientList(pop[1], pop[2], now)
    /\ patients_rerun = patients
    /\ departments = <<Dept("CARD", "2", 30)>>
    /\ medications = <<>>
    /\ current_patients =
           sample(active_patients, current_cohort_size(Len(active_patients)), 0)
    /\ patients_with_admissions =
           sample(active_patients, IntOfShare(Len(active_patients), active_admission_rate), 0)
           \o sample(historic_patients,
                     IntOfShare(Len(historic_patients), historic_admission_rate), 0)
    /\ patients_with_admissions_rerun = patients_with_admissions
    /\ \E x \in AdmissionDraws(patients_with_admissions[1]) :
         \/ /\ admissions = <<AdmissionRecord(1, patients_with_admissions[1], x)>>
            /\ los_days = <<x.los_days>>
            /\ patient_index = 2
         \/ /\ Len(patients_with_admissions) > 1
            /\ \E y \in AdmissionDraws(patients_with_admissions[2]) :
                 /\ y.admission_type = "Urgent"
                 /\ y.los_days = 30
                 /\ y.placement[1] = admission_current_date - 730
                 /\ admissions = << AdmissionRecord(1, patients_with_admissions[1], x),
                                    AdmissionRecord(2, patients_with_admissions[2], y) >>
                 /\ los_days = <<x.los_days, y.los_days>>
            /\ patient_index = 3
    /\ admissions_rerun = RerunOf(admissions)
    /\ admissions_left = 0
    /\ admission_counter = Len(admissions) + 1
    /\ procedure_counter = 1
    /\ procedures = <<>>
    /\ BedIdle
    /\ MedIdle
    /\ AhsIdle
    /\ SaveIdle

NextAllied == AlliedEnter \/ NextAdmissionServices \/ GenerateService \/ AlliedReturn

SpecAllied == InitAllied /\ [][NextAllied]_vars

\* ---- claims on the allied-health generator ----

\* C13: every service's service_date lies in [admission_date, effective end
\* date] of its admission: the discharge_date when there is one, 2024-12-15
\* otherwise; stays of one day included.
C13_ServiceWithinStay ==
    \A k \in 1..Len(allied_health_services_data) :
      \E n \in 1..Len(admissions) :
        /\ admissions[n].admission_id = allied_health_services_data[k].admission_id
        /\ strptime(allied_health_services_data[k].service_date)
               >= strptime(admissions[n].admission_date)
        /\ strptime(allied_health_services_data[k].service_date)
               <= (IF admissions[n].discharge_date = None
                   THEN datetime(2024, 12, 15)
                   ELSE strptime(admissions[n].discharge_date))

\* An admission of 2024-12-14 that is still open, with one service dated
\* the admission day and one dated 2024-12-15.
C13_Witness ==
    \E n \in 1..Len(admissions) :
      /\ admissions[n].discharge_date = None
      /\ strptime(admissions[n].admission_date) = datetime(2024, 12, 14)
      /\ \E k \in 1..Len(allied_health_services_data) :
           /\ allied_health_services_data[k].admission_id = admissions[n].admission_id
           /\ allied_health_services_data[k].service_date = admissions[n].admission_date
      /\ \E k \in 1..Len(allied_health_services_data) :
           /\ allied_health_services_data[k].admission_id = admissions[n].admission_id
           /\ allied_health_services_data[k].service_date = <<2024, 12, 15>>

\* ---- further claims on the bed generator ----

BedOf(bed_id) ==
    CHOOSE bed \in {bed_inventory[b] : b \in 1..Len(bed_inventory)} : bed.bed_id = bed_id

BedCapacityOf(dept_id) ==
    (CHOOSE dept \in {departments[i] : i \in 1..Len(departments)} :
        dept.dept_id = dept_id).bed_capacity

\* C14: a department whose bed capacity is zero has no row in bed_inventory,
\* and no availability record and no booking carries a bed of such a
\* department.
C14_NoBedsWithoutCapacity ==
    /\ \A b \in 1..Len(bed_inventory) :
         BedCapacityOf(bed_inventory[b].department_id) # 0
    /\ \A k \in 1..Len(bed_availability) :
         BedCapacityOf(BedOf(bed_availability[k].bed_id).department_id) # 0
    /\ \A k \in 1..Len(bed_bookings) :
         BedCapacityOf(BedOf(bed_bookings[k].bed_id).department_id) # 0

\* The generator has returned for a catalog with a department without beds,
\* with beds, availability records and bookings of the other department.
C14_Witness ==
    /\ pc = "beds_done"
    /\ \E i \in 1..Len(departments) : departments[i].bed_capacity = 0
    /\ bed_inventory # <<>>
    /\ bed_availability # <<>>
    /\ bed_bookings # <<>>

BookingsOf(bed_id, date) ==
    {k \in 1..Len(bed_bookings) :
        bed_bookings[k].bed_id = bed_id /\ bed_bookings[k].check_in_date = date}

\* C15: between the iterations of the daily loop and at the return, a
\* (bed, date) pair has a booking exactly when its availability record ends
\* up 'Occupied' (after the out-of-service override), and then exactly one,
\* with the record's bed_id as bed_id and its date as check_in_date.
C15_BookingIffOccupied ==
    pc \in {"beds_daily", "beds_done"} =>
      /\ \A k \in 1..Len(bed_availability) :
           Cardinality(BookingsOf(bed_availability[k].bed_id, bed_availability[k].date))
               = (IF bed_availability[k].status = "Occupied" THEN 1 ELSE 0)
      /\ \A k \in 1..Len(bed_bookings) :
           \E a \in 1..Len(bed_availability) :
             /\ bed_availability[a].bed_id = bed_bookings[k].bed_id
             /\ bed_availability[a].date = bed_bookings[k].check_in_date
             /\ bed_availability[a].status = "Occupied"

\* The generator has returned with an Occupied record, an Available one and
\* one overridden to 'Out of Service'.
C15_Witness ==
    /\ pc = "beds_done"
    /\ \E k \in 1..Len(bed_availability) : bed_availability[k].status = "Occupied"
    /\ \E k \in 1..Len(bed_availability) : bed_availability[k].status = "Available"
    /\ \E k \in 1..Len(bed_availability) : bed_availability[k].status = "Out of Service"

(***************************************************************************)
(* generate_bed_management_data on populations around the cap of line 547  *)
(***************************************************************************)
\* The population sizes the booking draw is explored on: below the cap of
\* line 547 and one above it.
BookingPopulations == {1, 2, 10001}

\* Lines 157-161: the identifiers generate_patient_demographics gives out.
GeneratedPatientIds == {<<"PAT", i + 1>> : i \in 0..(NUM_PATIENTS - 1)}

\* The bed generator called on its own: it reads NUM_PATIENTS and the
\* department catalog, never the patient list.
InitBookings ==
    /\ pc = "beds"
    /\ NUM_PATIENTS \in BookingPopulations
    /\ now = datetime(2024, 12, 15)
    /\ now_rerun = now
    /\ patients = <<>>
    /\ patients_rerun = <<>>
    /\ departments = <<Dept("CARD", "2", 2), Dept("RADI", "B1", 0)>>
    /\ medications = <<>>
    /\ AdmIdle
    /\ BedIdle
    /\ MedIdle
    /\ AhsIdle
    /\ SaveIdle

SpecBookings == InitBookings /\ [][NextBeds]_vars

\* C16: with N > 0, every booking's patient_id is the id of a generated
\* patient, and the draw it comes from ranges over all of PAT000001..PAT<N>.
C16_BookingPatientFromFullNamespace ==
    NUM_PATIENTS > 0 =>
      \A k \in 1..Len(bed_bookings) :
        /\ bed_bookings[k].patient_id \in GeneratedPatientIds
        /\ \A id \in GeneratedPatientIds : id[2] \in 1..LastBookablePatient

\* C17: with N <= 0 no generator fails: the patient list, the admissions,
\* the procedures, the medication orders and the allied-health services are
\* empty, and the bed generator runs to its return.
C17_EmptyPopulationRunCompletes ==
    NUM_PATIENTS <= 0 =>
      /\ patients = <<>>
      /\ admissions = <<>>
      /\ procedures = <<>>
      /\ medication_orders = <<>>
      /\ allied_health_services_data = <<>>
      /\ pc # "raised"

(***************************************************************************)
(* Every generator, from the states it is called in                        *)
(***************************************************************************)
InitGenerators ==
    InitPatients \/ InitAdmissions \/ InitBeds \/ InitMedications \/ InitAllied

NextGenerators ==
    NextPatients \/ NextAdmissions \/ NextBeds \/ NextMedications \/ NextAllied

SpecGenerators == InitGenerators /\ [][NextGenerators]_vars

\* ---- claims on all collections ----

\* The identifiers of a collection, in emission order.
Ids(list, field) == [i \in 1..Len(list) |-> list[i][field]]

\* Identifiers with one prefix whose numbers start at 1 and strictly increase.
NumberedFromOne(ids, prefix) ==
    /\ \A i \in 1..Len(ids) : ids[i][1] = prefix
    /\ Len(ids) > 0 => ids[1][2] = 1
    /\ \A i \in 1..(Len(ids) - 1) : ids[i][2] < ids[i + 1][2]

\* C18: in every collection the identifiers' sequence numbers start at 1 and
\* strictly increase in emission order, so no identifier is given twice.
C18_IdentifiersIncrease ==
    /\ NumberedFromOne(Ids(patients, "patient_id"), "PAT")
    /\ NumberedFromOne(Ids(admissions, "admission_id"), "ADM")
    /\ NumberedFromOne(Ids(procedures, "procedure_id"), "PROC")
    /\ NumberedFromOne(Ids(bed_inventory, "bed_id"), "BED")
    /\ NumberedFromOne(Ids(bed_availability, "availability_id"), "AVAIL")
    /\ NumberedFromOne(Ids(bed_bookings, "booking_id"), "BOOK")
    /\ NumberedFromOne(Ids(pharmacy_inventory, "inventory_id"), "INV")
    /\ NumberedFromOne(Ids(medication_orders, "order_id"), "ORD")
    /\ NumberedFromOne(Ids(medication_dispensing, "dispensing_id"), "DISP")
    /\ NumberedFromOne(Ids(allied_health_services_data, "service_id"), "AHS")

\* Two services of one admission followed by a service of the next one.
C18_Witness ==
    /\ Len(allied_health_services_data) = 3
    /\ allied_health_services_data[1].admission_id = allied_health_services_data[2].admission_id
    /\ allied_health_services_data[2].admission_id # allied_health_services_data[3].admission_id

\* The admissions carrying an admission_id.
AdmissionsWithId(admission_id) ==
    {n \in 1..Len(admissions) : admissions[n].admission_id = admission_id}

\* A record references an admission of the collection and carries its patient.
RefersToAdmissionAndPatient(record) ==
    \E n \in AdmissionsWithId(record.admission_id) :
      admissions[n].patient_id = record.patient_id

\* C19: every admission's patient_id is the id of a generated patient; every
\* procedure, medication order and allied-health service references an
\* admission of the collection; and the patient_id on an order, on a
\* dispensing record (through its order) and on a service is that
\* admission's patient_id.
C19_ReferencesResolve ==
    /\ \A n \in 1..Len(admissions) :
         InList(admissions[n].patient_id, Ids(patients, "patient_id"))
    /\ \A k \in 1..Len(procedures) :
         AdmissionsWithId(procedures[k].admission_id) # {}
    /\ \A k \in 1..Len(medication_orders) :
         RefersToAdmissionAndPatient(medication_orders[k])
    /\ \A k \in 1..Len(allied_health_services_data) :
         RefersToAdmissionAndPatient(allied_health_services_data[k])
    /\ \A k \in 1..Len(medication_dispensing) :
         \E o \in 1..Len(medication_orders) :
           /\ medication_orders[o].order_id = medication_dispensing[k].order_id
           /\ medication_orders[o].patient_id = medication_dispensing[k].patient_id

\* Services of two admissions that belong to different patients.
C19_Witness ==
    \E j, k \in 1..Len(allied_health_services_data) :
      /\ allied_health_services_data[j].admission_id
             # allied_health_services_data[k].admission_id
      /\ allied_health_services_data[j].patient_id
             # allied_health_services_data[k].patient_id

(***************************************************************************)
(* generate_admissions_and_procedures, run twice with one seed             *)
(***************************************************************************)
\* The populations of the two runs: the same statuses and draws, the dates
\* taken from each run's wall clock.
RerunPopulations == {<<3, 0>>, <<2, 7>>}

InitRerun ==
    /\ pc = "admissions"
    /\ now = datetime(2024, 12, 15)
    /\ now_rerun \in WallClockDays
    /\ \E pop \in RerunPopulations :
         /\ NUM_PATIENTS = pop[1] + pop[2]
         /\ patients = PatientList(pop[1], pop[2], now)
         /\ patients_rerun = PatientList(pop[1], pop[2], now_rerun)
    /\ departments = <<Dept("CARD", "2", 30)>>
    /\ medications = <<>>
    /\ AdmIdle
    /\ BedIdle
    /\ MedIdle
    /\ AhsIdle
    /\ SaveIdle

SpecRerun == InitRerun /\ [][NextAdmissions]_vars

RECURSIVE SumOfCharges(_)
SumOfCharges(list) ==
    IF list = <<>> THEN 0 ELSE Head(list).total_charges + SumOfCharges(Tail(list))

SavedCollection(n) ==
    CASE n = 1 -> patients
      [] n = 2 -> admissions
      [] n = 3 -> procedures
      [] n = 4 -> bed_inventory
      [] n = 5 -> bed_bookings
      [] n = 6 -> bed_availability
      [] n = 7 -> pharmacy_inventory
      [] n = 8 -> medication_orders
      [] n = 9 -> medication_dispensing
      [] n = 10 -> allied_health_services_data

\* Lines 802-805: the last generator has returned, the saving starts.
MainStartSaving ==
    /\ pc = "allied_done"
    /\ save_index' = 1
    /\ pc' = "main_save"
    /\ UNCHANGED <<patVars, catalogs, admVars, bedVars, medVars, ahsVars, csv_files>>

\* The numbers of rows a file may hold when writerows fails on the way.
RowsBeforeFailure(data) == {0, Max(0, Len(data) - 1)}

\* Lines 771-781: one save_to_csv call.  open(filepath, 'w') may raise
\* OSError (the data/ directory of line 773 missing or not writable) before
\* anything is written; writeheader/writerows may raise it (device full)
\* after the file has been created; nothing catches either, so main() stops.
SaveToCsv ==
    /\ pc = "main_save"
    /\ save_index <= Len(Filenames)
    /\ LET data == SavedCollection(save_index)
       IN  \/ /\ pc' = "raised"
              /\ UNCHANGED <<csv_files, save_index>>
           \/ /\ \E rows \in RowsBeforeFailure(data) :
                   csv_files' = [csv_files EXCEPT ![save_index] =
                                    [rows |-> rows, complete |-> FALSE]]
              /\ pc' = "raised"
              /\ UNCHANGED save_index
           \/ /\ csv_files' = [csv_files EXCEPT ![save_index] =
                                  [rows |-> Len(data), complete |-> TRUE]]
              /\ save_index' = save_index + 1
              /\ UNCHANGED pc
    /\ UNCHANGED <<patVars, catalogs, admVars, bedVars, medVars, ahsVars>>

\* Lines 873-892: the summary; main() returns.
MainReturn ==
    /\ pc = "main_save"
    /\ save_index > Len(Filenames)
    /\ pc' = "main_done"
    /\ UNCHANGED <<patVars, catalogs, admVars, bedVars, medVars, ahsVars, saveVars>>

\* main() from its last generator call on.
InitSave == InitAllied

NextSave == NextAllied \/ MainStartSaving \/ SaveToCsv \/ MainReturn

SpecSave == InitSave /\ [][NextSave]_vars

\* ---- claims on main ----

\* C21: a run is all-or-nothing with respect to persisted output: when the
\* run has aborted none of the ten collections has been written, and when it
\* has ended all ten have been written in full.
C21_SavedAllOrNothing ==
    /\ pc = "raised" => \A n \in 1..Len(Filenames) : csv_files[n] = None
    /\ pc = "main_done" =>
         \A n \in 1..Len(Filenames) :
           /\ csv_files[n] # None
           /\ csv_files[n].complete
           /\ csv_files[n].rows = Len(SavedCollection(n))


\* ---- claims on the department filter of the medication generator ----

\* The categories a department's orders are restricted to; none for a
\* department without restriction.
RequiredCategories(dept_id) ==
    CASE dept_id = "CARD" -> {"Cardiovascular"}
      [] dept_id = "NEUR" -> {"Neurological", "Pain Management"}
      [] dept_id = "ENDO" -> {"Endocrine"}
      [] dept_id = "GAST" -> {"Gastrointestinal"}
      [] OTHER -> {}

\* C22: every order's medication is a catalog medication, and belongs to the
\* category required by the department of the order's admission
\* (Cardiovascular for CARD, Neurological or Pain Management for NEUR,
\* Endocrine for ENDO, Gastrointestinal for GAST).
C22_OrderMatchesDepartment ==
    \A k \in 1..Len(medication_orders) :
      \E n \in 1..Len(admissions) :
        /\ admissions[n].admission_id = medication_orders[k].admission_id
        /\ \E i \in 1..Len(medications) :
             /\ medications[i].med_code = medication_orders[k].medication_code
             /\ RequiredCategories(admissions[n].department_id) # {} =>
                  medications[i].category
                      \in RequiredCategories(admissions[n].department_id)

\* An order of the Cardiology admission and an order of the Endocrinology
\* admission, on the catalog that holds more than their categories.
C22_Witness ==
    /\ \E i \in 1..Len(medications) : medications[i].category = "Endocrine"
    /\ \E k \in 1..Len(medication_orders) :
         /\ medication_orders[k].admission_id = <<"ADM", 1>>
         /\ medication_orders[k].medication_code = "MED001"
    /\ \E k \in 1..Len(medication_orders) :
         /\ medication_orders[k].admission_id = <<"ADM", 2>>
         /\ medication_orders[k].medication_code = "MED002"


\* ---- claims on the rooms of the bed inventory ----

\* The inventory rows of a department.
BedsOfDepartment(dept_id) ==
    SelectSeq(bed_inventory, LAMBDA bed : bed.department_id = dept_id)

AdmissionsOfPatient(patient_id) ==
    SelectSeq(admissions, LAMBDA a : a.patient_id = patient_id)

\* C24: admissions are generated for exactly the members of the
\* has-admission-history cohort: every admission belongs to a member of the
\* cohort (a patient outside it has none, in the currently-admitted cohort or
\* not), and every member the loop has passed, all of them once the
\* generator has returned, has at least one admission.
C24_AdmissionsForHistoryCohort ==
    /\ \A n \in 1..Len(admissions) :
         \E k \in 1..Len(patients_with_admissions) :
           patients_with_admissions[k].patient_id = admissions[n].patient_id
    /\ pc \in {"admissions_patient", "admissions_admission", "admissions_done"} =>
         \A k \in 1..Len(patients_with_admissions) :
           (k < patient_index) =>
             Len(AdmissionsOfPatient(patients_with_admissions[k].patient_id)) >= 1
    /\ pc = "admissions_done" => patient_index > Len(patients_with_admissions)

\* A patient of the currently-admitted cohort outside the has-admission-
\* history cohort, once the loop has passed the first member of the latter.
C24_Witness ==
    /\ pc = "admissions_patient"
    /\ patient_index = 2
    /\ Len(admissions) >= 1
    /\ \E c \in 1..Len(current_patients) :
         ~InList(current_patients[c], patients_with_admissions)


\* ---- claims on what a step leaves alone ----

\* The list s with records appended, or s itself.
IsPrefix(s, t) == Len(s) <= Len(t) /\ SubSeq(t, 1, Len(s)) = s

\* C25: records are append-only: no step modifies or removes a record of a
\* collection; the admission generator leaves the patients unchanged, the
\* medication and allied-health generators leave the admissions unchanged,
\* and the daily loop of the bed generator leaves the bed inventory unchanged.
C25_AppendOnly ==
    [][ /\ IsPrefix(patients, patients')
        /\ IsPrefix(admissions, admissions')
        /\ IsPrefix(procedures, procedures')
        /\ IsPrefix(bed_inventory, bed_inventory')
        /\ IsPrefix(bed_availability, bed_availability')
        /\ IsPrefix(bed_bookings, bed_bookings')
        /\ IsPrefix(pharmacy_inventory, pharmacy_inventory')
        /\ IsPrefix(medication_orders, medication_orders')
        /\ IsPrefix(medication_dispensing, medication_dispensing')
        /\ IsPrefix(allied_health_services_data, allied_health_services_data')
        /\ pc \in {"admissions", "admissions_patient", "admissions_admission"}
             => patients' = patients
        /\ pc \in {"medications", "medications_inventory", "medications_admission",
                   "medications_order", "allied", "allied_admission", "allied_service"}
             => admissions' = admissions
        /\ pc = "beds_daily" => bed_inventory' = bed_inventory ]_vars

\* The allied-health generator has returned with services of an admission
\* that is still open.
C25_Witness ==
    /\ pc = "allied_done"
    /\ \E k \in 1..Len(allied_health_services_data) :
         \E n \in 1..Len(admissions) :
           /\ admissions[n].admission_id = allied_health_services_data[k].admission_id
           /\ admissions[n].discharge_date = None


(***************************************************************************)
(* main: the generator calls of lines 789-802, in order                    *)
(***************************************************************************)
\* Line 790: `patients = generate_patient_demographics()`.
MainCallPatients ==
    /\ pc = "main"
    /\ pc' = "patients"
    /\ UNCHANGED <<patVars, catalogs, admVars, bedVars, medVars, ahsVars, saveVars>>

\* Line 793: `admissions, procedures = generate_admissions_and_procedures(patients)`.
MainCallAdmissions ==
    /\ pc = "patients_done"
    /\ pc' = "admissions"
    /\ UNCHANGED <<patVars, catalogs, admVars, bedVars, medVars, ahsVars, saveVars>>

\* Line 796: `... = generate_bed_management_data()`.
MainCallBeds ==
    /\ pc = "admissions_done"
    /\ pc' = "beds"
    /\ UNCHANGED <<patVars, catalogs, admVars, bedVars, medVars, ahsVars, saveVars>>

\* Line 799: `... = generate_medication_data(admissions)`.
MainCallMedications ==
    /\ pc = "beds_done"
    /\ pc' = "medications"
    /\ UNCHANGED <<patVars, catalogs, admVars, bedVars, medVars, ahsVars, saveVars>>

\* Line 802: `allied_health_services = generate_allied_health_data(admissions)`.
MainCallAllied ==
    /\ pc = "medications_done"
    /\ pc' = "allied"
    /\ UNCHANGED <<patVars, catalogs, admVars, bedVars, medVars, ahsVars, saveVars>>

\* The admission generator has returned without a cohort (fewer than 3
\* Active and fewer than 7 Historic patients).
AdmReturnedEmpty ==
    /\ current_patients = <<>>
    /\ patients_with_admissions = <<>>
    /\ patient_index = 1
    /\ admissions_left = 0
    /\ admission_counter = 1
    /\ procedure_counter = 1
    /\ admissions = <<>>
    /\ procedures = <<>>
    /\ los_days = <<>>
    /\ patients_with_admissions_rerun = <<>>
    /\ admissions_rerun = <<>>

\* The bed generator has returned for a catalog without a room.
BedReturnedEmpty ==
    /\ bed_inventory = <<>>
    /\ bed_bookings = <<>>
    /\ bed_availability = <<>>
    /\ bed_counter = 1
    /\ booking_counter = 1
    /\ dept_index = Len(departments) + 1
    /\ current_date = bed_end_date + 1
    /\ bed_index = 1

\* A catalog of one row of lines 105-126.
OneMedication ==
    << Med("MED001", "Lisinopril", "ACE Inhibitor", "Cardiovascular", "Tablet", "10mg", 1550) >>

\* main() from its first line, for populations without a cohort and a
\* catalog without a room.
InitMainStart ==
    /\ pc = "main"
    /\ NUM_PATIENTS \in {1, 2}
    /\ now = datetime(2024, 12, 15)
    /\ now_rerun = now
    /\ patients = <<>>
    /\ patients_rerun = <<>>
    /\ departments = <<Dept("PSYC", "1", 1), Dept("RADI", "B1", 0)>>
    /\ medications = OneMedication
    /\ AdmIdle
    /\ BedIdle
    /\ MedIdle
    /\ AhsIdle
    /\ SaveIdle

\* main() at line 793, for a population of Historic patients with a cohort
\* of four; the model follows the cohort up to MaxAdmissions admissions.
InitMainAdmissions ==
    /\ pc = "patients_done"
    /\ NUM_PATIENTS = 27
    /\ now = datetime(2024, 12, 15)
    /\ now_rerun = now
    /\ patients = PatientList(0, 27, now)
    /\ patients_rerun = patients
    /\ departments = <<Dept("CARD", "2", 30)>>
    /\ medications = OneMedication
    /\ AdmIdle
    /\ BedIdle
    /\ MedIdle
    /\ AhsIdle
    /\ SaveIdle

\* main() at line 796, for one patient and a department with a room; the
\* medication catalog, which no admission will draw from, is left empty.
InitMainBeds ==
    /\ pc = "admissions_done"
    /\ NUM_PATIENTS = 1
    /\ now = datetime(2024, 12, 15)
    /\ now_rerun = now
    /\ patients = PatientList(1, 0, now)
    /\ patients_rerun = patients
    /\ departments = <<Dept("CARD", "2", 3), Dept("RADI", "B1", 0)>>
    /\ medications = <<>>
    /\ AdmReturnedEmpty
    /\ BedIdle
    /\ MedIdle
    /\ AhsIdle
    /\ SaveIdle

\* main() at line 799, with one admission of one patient and a catalog
\* without a room.
InitMainMedications ==
    /\ pc = "beds_done"
    /\ NUM_PATIENTS = 3
    /\ now = datetime(2024, 12, 15)
    /\ now_rerun = now
    /\ patients = PatientList(3, 0, now)
    /\ patients_rerun = patients
    /\ departments = <<Dept("CARD", "2", 1)>>
    /\ medications = OneMedication
    /\ current_patients = <<>>
    /\ patients_with_admissions = <<patients[1]>>
    /\ patient_index = 2
    /\ admissions_left = 0
    /\ admission_counter = 2
    /\ procedure_counter = 1
    /\ admissions = <<MedicationAdmissions[1]>>
    /\ procedures = <<>>
    /\ los_days = <<1>>
    /\ patients_with_admissions_rerun = <<patients_rerun[1]>>
    /\ admissions_rerun = RerunOf(admissions)
    /\ BedReturnedEmpty
    /\ MedIdle
    /\ AhsIdle
    /\ SaveIdle

InitMain == InitMainStart \/ InitMainAdmissions \/ InitMainBeds \/ InitMainMedications

NextMain ==
    \/ MainCallPatients
    \/ NextPatients
    \/ MainCallAdmissions
    \/ NextAdmissions
    \/ MainCallBeds
    \/ NextBeds
    \/ MainCallMedications
    \/ NextMedications
    \/ MainCallAllied
    \/ NextAllied
    \/ MainStartSaving
    \/ SaveToCsv
    \/ MainReturn

SpecMain == InitMain /\ [][NextMain]_vars


\* ---- claims on termination ----

\* The positions of a run in the order main() goes through them; the two
\* positions of a nested loop share a stage.
Stage(position) ==
    CASE position = "main" -> 1
      [] position = "patients" -> 2
      [] position = "patients_done" -> 3
      [] position = "admissions" -> 4
      [] position \in {"admissions_patient", "admissions_admission"} -> 5
      [] position = "admissions_done" -> 6
      [] position = "beds" -> 7
      [] position = "beds_inventory" -> 8
      [] position = "beds_daily" -> 9
      [] position = "beds_done" -> 10
      [] position = "medications" -> 11
      [] position = "medications_inventory" -> 12
      [] position \in {"medications_admission", "medications_order"} -> 13
      [] position = "medications_done" -> 14
      [] position = "allied" -> 15
      [] position = "allied_admission" -> 16
      [] position = "allied_service" -> 16
      [] position = "allied_done" -> 17
      [] position = "main_save" -> 18
      [] position = "main_done" -> 19
      [] position = "raised" -> 20

\* The most iterations an inner loop is entered with: Poisson + 1 admissions,
\* max(1, Poisson) orders or services.
MostIterations ==
    LET draws == {k + 1 : k \in PoissonDraws} \cup MedicationCounts \cup ServiceCounts
    IN  CHOOSE most \in draws : \A n \in draws : n <= most

\* What is left of a nested loop: `outer` iterations of the outer loop, the
\* current one with `inner` iterations of the inner loop left (not drawn yet
\* when at_outer).
LeftOfNestedLoop(outer, inner, at_outer) ==
    outer * (MostIterations + 2) + (IF at_outer THEN MostIterations + 1 ELSE inner)

\* The number of loop iterations left, at most, at the current stage.
IterationsLeft ==
    CASE pc = "patients" -> NUM_PATIENTS - Len(patients)
      [] pc \in {"admissions_patient", "admissions_admission"} ->
           LeftOfNestedLoop(Len(patients_with_admissions) - patient_index + 1,
                            admissions_left, pc = "admissions_patient")
      [] pc = "beds_inventory" -> Len(departments) - dept_index + 1
      [] pc = "beds_daily" ->
           Max(0, bed_end_date - current_date + 1) * (Len(bed_inventory) + 1)
               + (Len(bed_inventory) - bed_index + 1)
      [] pc = "medications_inventory" -> Len(medications) - medication_index + 1
      [] pc \in {"medications_admission", "medications_order"} ->
           LeftOfNestedLoop(Len(admissions) - admission_index + 1,
                            orders_left, pc = "medications_admission")
      [] pc \in {"allied_admission", "allied_service"} ->
           LeftOfNestedLoop(Len(admissions) - service_index + 1,
                            services_left, pc = "allied_admission")
      [] pc = "main_save" -> Len(Filenames) - save_index + 1
      [] OTHER -> 0

\* The model stops a run whose admission or order counter has passed its
\* bound.
Truncated ==
    \/ pc \in {"admissions_patient", "admissions_admission"}
         /\ admission_counter > MaxAdmissions
    \/ pc \in {"medications_admission", "medications_order"}
         /\ order_counter > MaxOrders

C27_NoOverlappingBookings ==
    \A i, j \in 1..Len(bed_bookings) :
      ( /\ i < j
        /\ bed_bookings[i].bed_id = bed_bookings[j].bed_id ) =>
          \/ strptime(bed_bookings[j].check_in_date)
                 >= strptime(bed_bookings[i].check_in_date) + bed_bookings[i].total_nights
          \/ strptime(bed_bookings[i].check_in_date)
                 >= strptime(bed_bookings[j].check_in_date) + bed_bookings[j].total_nights


\* ---- claims on the dates of an admission ----

\* C28: no admission has a discharge_date later than the simulated current
\* date 2024-12-15.
C28_DischargedByCurrentDate ==
    \A n \in 1..Len(admissions) :
      admissions[n].discharge_date # None =>
        strptime(admissions[n].discharge_date) <= admission_current_date


\* ---- claims on the dates of a patient ----

\* C29: for every generated patient, Active or Historic, last_visit_date is
\* not earlier than registration_date.
C29_LastVisitAfterRegistration ==
    \A i \in 1..Len(patients) :
      strptime(patients[i].last_visit_date) >= strptime(patients[i].registration_date)


(***************************************************************************)
(* generate_bed_management_data after admissions with a room and a bed      *)
(***************************************************************************)
\* main() at the call of the bed generator, with one admission of the first
\* of three Active patients, in the department that has a room.
InitRooms ==
    /\ pc = "beds"
    /\ NUM_PATIENTS = 3
    /\ now = datetime(2024, 12, 15)
    /\ now_rerun = now
    /\ patients = PatientList(3, 0, now)
    /\ patients_rerun = patients
    /\ departments = <<Dept("CARD", "2", 3), Dept("RADI", "B1", 0)>>
    /\ medications = <<>>
    /\ current_patients = <<>>
    /\ patients_with_admissions = <<patients[1]>>
    /\ patient_index = 2
    /\ admissions_left = 0
    /\ admission_counter = 2
    /\ procedure_counter = 1
    /\ \E x \in AdmissionDraws(patients_with_admissions[1]) :
         /\ admissions = <<AdmissionRecord(1, patients_with_admissions[1], x)>>
         /\ los_days = <<x.los_days>>
    /\ procedures = <<>>
    /\ patients_with_admissions_rerun = <<patients_rerun[1]>>
    /\ admissions_rerun = RerunOf(admissions)
    /\ BedIdle
    /\ MedIdle
    /\ AhsIdle
    /\ SaveIdle

SpecRooms == InitRooms /\ [][NextBeds]_vars

\* ---- claims on the bed of an admission ----

\* C30: once the inventory is built, for every admission whose room_number
\* and bed_number are not None (they are None together), some bed of the
\* inventory has the admission's department_id, room_number and bed_number.
C30_AdmissionBedInInventory ==
    pc \in {"beds_daily", "beds_done"} =>
      \A n \in 1..Len(admissions) :
        admissions[n].room_number # None =>
            \E b \in 1..Len(bed_inventory) :
              /\ bed_inventory[b].department_id = admissions[n].department_id
              /\ bed_inventory[b].room_number = admissions[n].room_number
              /\ bed_inventory[b].bed_number = admissions[n].bed_number

=============================================================================
